---------------------------- MODULE Spec2Model ----------------------------
(***************************************************************************)
(* Owner ("main process") side of electron-json-settings-store:            *)
(* the settings cache, the validation pipeline, the write-coalescing       *)
(* persistence engine, the file watcher and the quit hook of               *)
(* ElectronJSONSettingsStoreMain (src/unnamed/part_000, lines 614-1730).   *)
(*                                                                         *)
(* JavaScript objects have identity: cachedSettings, _defaults and the     *)
(* `data` argument of a write are references.  The model keeps a heap of   *)
(* objects and stores references, so that `this.cachedSettings = settings` *)
(* aliases exactly as the code does.                                       *)
(*                                                                         *)
(* An object is a function from its own property names to numbers.  The    *)
(* property order of an object is not modelled: JSON text is a sequence of *)
(* <<key, value>> pairs in the fixed order PropertyOrder.                  *)
(***************************************************************************)
EXTENDS Integers, Sequences, FiniteSets, TLC

(***************************************************************************)
(* Bounds of the model.                                                    *)
(***************************************************************************)
\* object identifiers 0..MaxObj of the heap
MaxObj == 4
\* saturation of the counters of save requests and physical writes
MaxCount == 4
\* pending debounce timers of closed watchers that are tracked
MaxTimers == 1
\* the messages of the replica that wait for the owner
MaxRequests == 1
\* the changes of the Cache a run makes once the replica is registered
MaxApplied == 3

(***************************************************************************)
(* The schema given to the constructor.  `size` is the schema of the       *)
(* README (type number, default 25, min 10, max 40); `id` is a second      *)
(* numeric field.                                                          *)
(***************************************************************************)
Schema ==
  [size |-> [default |-> 25, min |-> 10, max |-> 40],
   id   |-> [default |-> 2,  min |-> 1,  max |-> 30]]

SchemaKeys == DOMAIN Schema

\* the order in which Object.entries / JSON.stringify enumerate properties
KeyOrder == <<"size", "id">>

\* values a caller passes to set / setAll, and values found in a file
Values == {0, 22}

\* `undefined` as a property value or a return value
Undefined == -1

(***************************************************************************)
(* Objects.                                                                *)
(***************************************************************************)
EmptyObj == [k \in {} |-> 0]

Put(o, k, v) == [x \in (DOMAIN o) \cup {k} |-> IF x = k THEN v ELSE o[x]]

Del(o, k) == [x \in (DOMAIN o) \ {k} |-> o[x]]

\* o[k] in JavaScript: undefined for a property the object does not own
Prop(o, k) == IF k \in DOMAIN o THEN o[k] ELSE Undefined

\* a comparison that finds any two objects different
deepEqualNever(x, y) == FALSE

\* function deepEqual(x, y) on two flat objects
deepEqual(x, y) ==
  /\ Cardinality(DOMAIN x) = Cardinality(DOMAIN y)
  /\ \A key \in DOMAIN x : Prop(x, key) = Prop(y, key)

\* _retreiveDefaults(schema)
retreiveDefaults == [k \in SchemaKeys |-> Schema[k].default]

\* the objects a caller passes to set(object) and setAll, and those another
\* program writes to the file: partial and complete, valid and invalid
InputObjects ==
  {[size |-> 22], [id |-> 0], [size |-> 22, id |-> 22], [size |-> 0, id |-> 22]}

(***************************************************************************)
(* The compiled checker of fastest-validator (this._check).  A missing or  *)
(* undefined field that has a schema default is filled in with the default *)
(* in the checked object itself; fields that are not in the schema are     *)
(* ignored; a present field is checked against min and max.                *)
(***************************************************************************)
FieldError(k, v) ==
  IF v < Schema[k].min THEN "numberMin"
  ELSE IF v > Schema[k].max THEN "numberMax"
  ELSE "ok"

\* the object as the checker leaves it
CheckFill(o) ==
  [k \in (DOMAIN o) \cup SchemaKeys |->
     IF k \in SchemaKeys /\ Prop(o, k) = Undefined THEN Schema[k].default ELSE o[k]]

RECURSIVE CheckFrom(_, _)
\* the ValidationError[] of the fields KeyOrder[i..], in schema order
CheckFrom(o, i) ==
  IF i > Len(KeyOrder) THEN <<>>
  ELSE LET k == KeyOrder[i]
           e == IF Prop(o, k) = Undefined THEN "ok" ELSE FieldError(k, o[k])
       IN (IF e = "ok" THEN <<>> ELSE <<[field |-> k, type |-> e]>>) \o CheckFrom(o, i + 1)

\* _fastValidateSettings(object): <<>> stands for `true`
fastValidateSettings(o) == CheckFrom(o, 1)

\* the message of a ValidationError
Message(e) ==
  IF e.field = "size"
  THEN (IF e.type = "numberMin"
        THEN "The 'size' field must be greater than or equal to 10."
        ELSE "The 'size' field must be less than or equal to 40.")
  ELSE (IF e.type = "numberMin"
        THEN "The 'id' field must be greater than or equal to 1."
        ELSE "The 'id' field must be less than or equal to 30.")

RECURSIVE Messages(_)
Messages(errs) ==
  IF errs = <<>> THEN <<>> ELSE <<Message(Head(errs))>> \o Messages(Tail(errs))

\* the fields named by a ValidationError[]
Fields(errs) == {errs[i].field : i \in 1..Len(errs)}

(***************************************************************************)
(* JSON text.                                                              *)
(***************************************************************************)
\* the properties an object can own, in enumeration order: those of the
\* schema, then one that the schema does not declare
PropertyOrder == KeyOrder \o <<"unknownKey">>

RECURSIVE PairsFrom(_, _)
PairsFrom(o, i) ==
  IF i > Len(PropertyOrder) THEN <<>>
  ELSE LET k == PropertyOrder[i]
       IN (IF k \in DOMAIN o /\ o[k] # Undefined THEN <<(<<k, o[k]>>)>> ELSE <<>>)
          \o PairsFrom(o, i + 1)

\* JSON.stringify(data): properties whose value is undefined are left out
stringify(o) == [state |-> "json", text |-> PairsFrom(o, 1)]

\* no document has been read
NoFile == [state |-> "", text |-> <<>>]

\* a file that does not exist, and a file whose text is not JSON
MissingFile == [state |-> "missing", text |-> <<>>]
CorruptFile == [state |-> "corrupt", text |-> <<>>]

\* _parseJSON(data): the parsed object, or an Error (ok = FALSE)
parseJSON(f) ==
  IF f.state = "json"
  THEN [ok |-> TRUE,
        obj |-> [k \in {f.text[i][1] : i \in 1..Len(f.text)} |->
                   (CHOOSE p \in {f.text[i] : i \in 1..Len(f.text)} : p[1] = k)[2]]]
  ELSE [ok |-> FALSE, obj |-> EmptyObj]


(***************************************************************************)
(* State of the owner process.                                             *)
(***************************************************************************)
VARIABLES
  options,         \* this.options (watchFile is cleared by disableFileWatcher)
  heap,            \* the objects, by reference
  cachedSettings,  \* this.cachedSettings: a reference
  hasInitialized,  \* this._hasInitialized
  isWritingFlag,   \* this._isWritingFlag
  writeAgainFlag,  \* this._writeAgainFlag
  isQuitingFlag,   \* this._isQuitingFlag
  watcher,         \* this._watcher !== null
  fsWait,          \* fsWait of the watcher held in this._watcher: its timer is pending
  orphanTimers,    \* pending timers of watchers that were closed meanwhile
  leaked,          \* a watcher that was overwritten in this._watcher without being closed
  leakedWait,      \* fsWait of the leaked watcher
  recentWrite,     \* process.hrtime.bigint() - this._lastWriteHrtime < 1e10
  file,            \* the backing document
  inflight,        \* the fs.promises.writeFile calls that have not completed
  initPc,          \* where init() / initSync() stands
  terminated,      \* the process has quit
  windowListeners, \* this._windowListeners holds the replica's WebContents
  channel,         \* the updateSettings messages sent to the replica, not yet received
  requests,        \* the messages of the replica that the owner has not handled yet
  replica,         \* the replica: _cachedSettings, _defaults, _hasInitialized
  \* history of the run, read by the properties only
  observe,         \* the operations whose calls are recorded in ev and last
  ev,              \* the operation of the last step, if recorded
  last,            \* arguments and result of the last call, with the Cache before it
  sent,            \* calls of _sendIPCUpdateSettings made by the last step
  peakWrites,      \* greatest number of physical writes that were in progress at once
  reqDuring,       \* save requests that found the write in flight still in progress
  fin,             \* at the last completion of a write: those requests, the follow-up
                   \* writes, and the caller that awaited the write
  burst,           \* consecutive set-and-write calls during one pending write
  anyFail,         \* some physical write has failed
  loaded,          \* the backing document that init() or initSync() read
  applied,         \* the Cache after each change of its content since the replica registered
  received,        \* the snapshots the replica has received since it registered
  watch            \* the watcher's past: disableFileWatcher() was called, the events and
                   \* reconciliations of the current debounce window

vars ==
  <<options, heap, cachedSettings, hasInitialized, isWritingFlag, writeAgainFlag,
    isQuitingFlag, watcher, fsWait, orphanTimers, leaked, leakedWait, recentWrite,
    file, inflight, initPc, terminated, windowListeners, channel, requests, replica,
    observe, ev, last, sent, peakWrites, reqDuring, fin, burst, anyFail, loaded, applied,
    received, watch>>

\* this._defaults: a reference that never changes (readonly field)
defaults == 0

ObjIds == 0..MaxObj

Max(a, b) == IF a >= b THEN a ELSE b
Min(a, b) == IF a <= b THEN a ELSE b

\* the result object ElectronJSONSettingsStoreResult; errors is `false`
\* (kind "false"), one string (kind "string") or a list (kind "list")
Result(status, default, kind, errs) ==
  [status |-> status, default |-> default, errKind |-> kind, errs |-> errs]

NoResult == Result(TRUE, Undefined, "none", <<>>)

\* the history of the watcher: disabled, disableFileWatcher() has been called
\* since the store was initialized;
\* events, the qualifying file-change events (watcher armed, no save in
\* flight, quiescence window over) since the first one that found no timer
\* pending; recon, the runs of _fileChanged since that event; stale, such an
\* event has arrived since the pending timer of the held watcher was started;
\* early, the last run of _fileChanged was started by a timer that was stale
NoWatch ==
  [disabled |-> FALSE, events |-> 0, recon |-> 0, stale |-> FALSE, early |-> FALSE]

(***************************************************************************)
(* The mutable state as one record, so that a handler is the composition   *)
(* of the methods it calls.  Cur is the state at the start of a step.      *)
(***************************************************************************)
Cur ==
  [options |-> options, heap |-> heap, cachedSettings |-> cachedSettings,
   hasInitialized |-> hasInitialized, isWritingFlag |-> isWritingFlag,
   writeAgainFlag |-> writeAgainFlag, isQuitingFlag |-> isQuitingFlag,
   watcher |-> watcher, fsWait |-> fsWait, orphanTimers |-> orphanTimers,
   leaked |-> leaked, leakedWait |-> leakedWait, recentWrite |-> recentWrite,
   file |-> file, inflight |-> inflight, initPc |-> initPc,
   windowListeners |-> windowListeners, channel |-> channel, applied |-> applied,
   peakWrites |-> peakWrites, reqDuring |-> reqDuring, anyFail |-> anyFail,
   watch |-> watch,
   sent |-> 0, res |-> NoResult, threw |-> FALSE, started |-> 0]

\* a store that has just been constructed with the options o, the backing
\* document being f
Constructed(o, f) ==
  [options |-> o,
   heap |-> [i \in ObjIds |-> IF i = defaults THEN retreiveDefaults ELSE EmptyObj],
   cachedSettings |-> 1,
   hasInitialized |-> FALSE, isWritingFlag |-> FALSE,
   writeAgainFlag |-> FALSE, isQuitingFlag |-> FALSE,
   watcher |-> FALSE, fsWait |-> FALSE, orphanTimers |-> 0,
   leaked |-> FALSE, leakedWait |-> FALSE, recentWrite |-> TRUE,
   file |-> f, inflight |-> <<>>, initPc |-> "new",
   windowListeners |-> FALSE, channel |-> <<>>, applied |-> <<>>,
   peakWrites |-> 0, reqDuring |-> 0, anyFail |-> FALSE,
   watch |-> NoWatch,
   sent |-> 0, res |-> NoResult, threw |-> FALSE, started |-> 0]

\* the references in use
Refs(s) == {defaults, s.cachedSettings} \cup {s.inflight[i].data : i \in 1..Len(s.inflight)}

\* a reference for a new object
NewRef(s) ==
  CHOOSE i \in ObjIds \ Refs(s) : \A j \in ObjIds \ Refs(s) : i <= j

\* the Cache content
Cache(s) == s.heap[s.cachedSettings]


(***************************************************************************)
(* Cache methods.                                                          *)
(***************************************************************************)
\* the Cache has just been assigned a new content
changed(s) ==
  IF s.windowListeners THEN [s EXCEPT !.applied = Append(@, Cache(s))] ELSE s

\* _sendIPCUpdateSettings() sending the message ahead of those on their way
sendIPCUpdateSettingsAhead(s) ==
  [s EXCEPT !.sent = @ + 1,
            !.channel = IF s.windowListeners THEN <<Cache(s)>> \o @ ELSE @]

\* _sendIPCUpdateSettings(): listener.send serializes this.cachedSettings at the call
sendIPCUpdateSettings(s) ==
  [s EXCEPT !.sent = @ + 1,
            !.channel = IF s.windowListeners THEN Append(@, Cache(s)) ELSE @]

\* _setCachedSettings(settings): settings is a reference
setCachedSettings(s, settings) ==
  IF deepEqual(s.heap[settings], Cache(s))
  THEN s
  ELSE sendIPCUpdateSettings(changed([s EXCEPT !.cachedSettings = settings]))

\* _setCachedSettingsKey(key, value)
setCachedSettingsKey(s, key, value) ==
  IF Prop(Cache(s), key) = value
  THEN s
  ELSE sendIPCUpdateSettings(changed([s EXCEPT !.heap[s.cachedSettings] = Put(@, key, value)]))

\* getDefault(key), once initialized
getDefault(s, key) ==
  IF key \in DOMAIN s.heap[defaults] THEN Schema[key].default ELSE Undefined

\* get(key), once initialized
get(s, key) ==
  IF key \notin DOMAIN Cache(s)
  THEN (IF key \in DOMAIN Schema THEN Schema[key].default ELSE Undefined)
  ELSE Cache(s)[key]

\* a validate(key, value) that accepts every value
validateUnchecked(s, key, value) == Result(TRUE, getDefault(s, key), "false", <<>>)

\* validate(key, value): checks the object {key: value}
validate(s, key, value) ==
  LET errs == fastValidateSettings(Put(EmptyObj, key, value))
  IN IF errs = <<>>
     THEN Result(TRUE, getDefault(s, key), "false", <<>>)
     ELSE Result(FALSE, getDefault(s, key), "list", Messages(errs))

\* the key of _set is not in the Cache
SetKeyMissing(s, key) == key \notin DOMAIN Cache(s)

\* _set(key, value): the state after it, with the result in res
set1(s, key, value) ==
  IF SetKeyMissing(s, key)
  THEN IF key \in DOMAIN s.heap[defaults]
       THEN LET t == setCachedSettingsKey(s, key, s.heap[defaults][key])
            IN [t EXCEPT !.res = Result(TRUE, getDefault(t, key), "false", <<>>)]
       ELSE [s EXCEPT !.res =
               Result(FALSE, Undefined, "string", <<"Key not found in cached settings">>)]
  ELSE IF ~s.options.validate
  THEN LET t == setCachedSettingsKey(s, key, value)
       IN [t EXCEPT !.res = Result(TRUE, getDefault(t, key), "false", <<>>)]
  ELSE LET validationResults == validate(s, key, value)
       IN IF validationResults.status
          THEN [setCachedSettingsKey(s, key, value) EXCEPT !.res = validationResults]
          ELSE IF s.options.defaultOnFailValidation
          THEN LET t == setCachedSettingsKey(s, key, Prop(s.heap[defaults], key))
               IN [t EXCEPT !.res =
                     Result(TRUE, getDefault(t, key), "string", <<"Default setting was applied">>)]
          ELSE [s EXCEPT !.res = validationResults]

RECURSIVE setEntries(_, _, _, _)
\* set(object): _set for the entries KeyOrder[i..] of the object, with the group result
setEntries(s, obj, i, group) ==
  IF i > Len(KeyOrder) THEN [s EXCEPT !.res = group]
  ELSE LET k == KeyOrder[i] IN
       IF k \notin DOMAIN obj THEN setEntries(s, obj, i + 1, group)
       ELSE LET t == set1(s, k, obj[k])
            IN setEntries(t, obj, i + 1,
                 IF t.res.status THEN group
                 ELSE Result(FALSE, Undefined, "list", group.errs \o t.res.errs))

\* set(key) with an object
setObject(s, obj) == setEntries(s, obj, 1, Result(TRUE, Undefined, "list", <<>>))

\* setAll(data), once initialized: data is a reference to the caller's object
setAll(s, data) ==
  IF ~s.options.validate THEN setCachedSettings(s, data)
  ELSE LET validationResults == fastValidateSettings(s.heap[data])
           t == [s EXCEPT !.heap[data] = CheckFill(@)]
       IN IF validationResults = <<>> THEN setCachedSettings(t, data)
          ELSE IF t.options.defaultOnFailValidation THEN setCachedSettings(t, defaults)
          ELSE [t EXCEPT !.threw = TRUE]

\* unset(key)
unset(s, key) ==
  IF key \notin DOMAIN Cache(s)
  THEN [s EXCEPT !.res = Result(FALSE, Undefined, "none", <<>>)]
  ELSE changed([s EXCEPT !.heap[s.cachedSettings] = Del(@, key),
                         !.res = Result(TRUE, Undefined, "none", <<>>)])

\* reset()
reset(s) == setCachedSettings(s, defaults)


(***************************************************************************)
(* Watcher and persistence methods.                                        *)
(***************************************************************************)
\* _watchFile(): a new watcher, with its own fsWait, is stored in _watcher;
\* a watcher that was still held there is no longer reachable but stays open
watchFile(s) ==
  IF s.watcher
  THEN [s EXCEPT !.leaked = TRUE, !.leakedWait = s.fsWait \/ (s.leaked /\ s.leakedWait),
                 !.fsWait = FALSE, !.watch.stale = FALSE]
  ELSE [s EXCEPT !.watcher = TRUE, !.fsWait = FALSE]

\* a close() that leaves the watcher in place
closeWatcherNot(s) == s

\* this._watcher.close(); this._watcher = null: a timer that the closed
\* watcher had started stays pending
closeWatcher(s) ==
  IF s.watcher
  THEN [s EXCEPT !.watcher = FALSE, !.fsWait = FALSE,
                 !.orphanTimers = IF s.fsWait THEN @ + 1 ELSE @,
                 !.watch.stale = FALSE]
  ELSE s

\* a write protocol without the flag test
WriteBlockedNever(s) == FALSE

\* `if (this._isWritingFlag)` of _writeJSONFile and _writeJSONFileSync
WriteBlocked(s) == s.isWritingFlag

\* the branch of a write that finds a write in progress
writeAgain(s) ==
  [s EXCEPT !.writeAgainFlag = TRUE,
            !.reqDuring = IF Len(s.inflight) > 0 THEN Min(@ + 1, MaxCount) ELSE @]

\* the object that the re-issued write of _writeJSONFile serializes:
\* the `data` argument of the write that has completed
FollowUpData(s, data) == data

\* _writeJSONFile(data) up to its await: cont names the caller that awaits it
writeJSONFile(s, data, cont) ==
  IF WriteBlocked(s) THEN writeAgain(s)
  ELSE LET t == closeWatcher(s)
       IN [t EXCEPT !.isWritingFlag = TRUE,
                    !.started = @ + 1,
                    !.inflight = Append(@, [data |-> data, text |-> stringify(t.heap[data]),
                                            cont |-> cont]),
                    !.peakWrites = Max(@, Len(t.inflight) + 1)]

\* _writeJSONFile after its await, when the write succeeded
afterWrite(s, data) ==
  LET t == [s EXCEPT !.isWritingFlag = FALSE, !.recentWrite = TRUE]
      u == IF t.options.watchFile /\ ~t.watcher THEN watchFile(t) ELSE t
  IN IF u.writeAgainFlag
     THEN writeJSONFile([u EXCEPT !.writeAgainFlag = FALSE], FollowUpData(u, data), "none")
     ELSE u

\* the body of _writeJSONFileSync(data) past its flag test, when
\* fs.writeFileSync does not throw
syncWrite(s, data) ==
  LET t == closeWatcher(s)
      u == [t EXCEPT !.started = @ + 1,
                     !.peakWrites = Max(@, Len(t.inflight) + 1),
                     !.file = stringify(t.heap[data]),
                     !.isWritingFlag = FALSE, !.recentWrite = TRUE]
  IN IF u.options.watchFile /\ ~u.watcher THEN watchFile(u) ELSE u

\* _writeJSONFileSync(data); ok: fs.writeFileSync does not throw
writeJSONFileSync(s, data, ok) ==
  IF WriteBlocked(s) THEN writeAgain(s)
  ELSE IF ~ok
  THEN [closeWatcher(s) EXCEPT !.isWritingFlag = TRUE,
                               !.started = @ + 1,
                               !.peakWrites = Max(@, Len(s.inflight) + 1),
                               !.threw = TRUE, !.anyFail = TRUE]
  ELSE LET w == syncWrite(s, data)
       IN IF w.writeAgainFlag
          THEN syncWrite([w EXCEPT !.writeAgainFlag = FALSE], data)
          ELSE w

\* a writeSync() that writes nothing
writeSyncNothing(s, ok) == [s EXCEPT !.res = Result(TRUE, Undefined, "false", <<>>)]

\* writeSync(): true, or the error as a string
writeSync(s, ok) ==
  LET t == writeJSONFileSync(s, s.cachedSettings, ok)
  IN [t EXCEPT !.threw = FALSE,
               !.res = IF t.threw THEN Result(FALSE, Undefined, "string", <<"Error">>)
                       ELSE Result(TRUE, Undefined, "false", <<>>)]

\* write() up to its await: when _writeJSONFile returns at its flag test the
\* promise of write() resolves to true without waiting for any write
write(s) ==
  LET t == writeJSONFile(s, s.cachedSettings, "write")
  IN IF WriteBlocked(s) THEN [t EXCEPT !.res = Result(TRUE, Undefined, "false", <<>>)]
     ELSE t

\* a repair that leaves the fields in error as they are
applyDefaultsNone(s, errs) == s

\* the repair of _validateSettingsSync, _validateSettings and _fileChanged:
\* the schema default is defined on the Cache for every field in error
applyDefaults(s, errs) ==
  changed([s EXCEPT !.heap[s.cachedSettings] =
             [k \in (DOMAIN @) \cup Fields(errs) |->
                IF k \in Fields(errs) THEN Schema[k].default ELSE @[k]]])

\* _fileChanged(); ok: the fs.writeFileSync of the repair does not throw
fileChanged(s, ok) ==
  LET parsedResult == parseJSON(s.file) IN
  IF ~parsedResult.ok THEN s
  ELSE LET new == NewRef(s)
           validationResults == fastValidateSettings(parsedResult.obj)
       IN IF ~s.options.validateFile
          THEN setCachedSettings([s EXCEPT !.heap[new] = parsedResult.obj], new)
          ELSE IF validationResults = <<>>
          THEN setCachedSettings([s EXCEPT !.heap[new] = CheckFill(parsedResult.obj)], new)
          ELSE IF s.options.defaultOnFailValidation
          THEN LET t == applyDefaults(s, validationResults)
               IN [writeJSONFileSync(t, t.cachedSettings, ok) EXCEPT !.threw = FALSE]
          ELSE s

\* a callback that tests its own fsWait only
StartsTimerAlways(s, w) == ~w

\* the callback of fs.watch on a 'change' event, for a watcher whose
\* fsWait is w: TRUE when it starts its timer
StartsTimer(s, w) == ~(w \/ s.isWritingFlag) /\ ~s.recentWrite


(***************************************************************************)
(* Initialisation methods.                                                 *)
(***************************************************************************)
\* a failure of init() or initSync() that leaves the store initialized
initFailedInitialized(s) == [s EXCEPT !.initPc = "failed", !.hasInitialized = TRUE]

\* the end of init() and initSync(): the watcher is armed when watchFile
\* is set, and the store is initialized
initDone(s) ==
  [(IF s.options.watchFile THEN watchFile(s) ELSE s)
     EXCEPT !.hasInitialized = TRUE, !.initPc = "done"]

initFailed(s) == [s EXCEPT !.initPc = "failed", !.threw = TRUE]

\* the validator writes the schema default of every missing field into
\* the object it checks, here the Cache
fill(s) ==
  IF CheckFill(Cache(s)) = Cache(s) THEN s
  ELSE changed([s EXCEPT !.heap[s.cachedSettings] = CheckFill(@)])

\* _validateSettingsSync(this.cachedSettings); ok: fs.writeFileSync does not throw
validateSettingsSync(s, ok) ==
  LET validationResults == fastValidateSettings(Cache(s))
      t == fill(s)
  IN IF validationResults = <<>> THEN t
     ELSE IF t.options.defaultOnFailValidation
     THEN LET u == applyDefaults(t, validationResults)
          IN writeJSONFileSync(u, u.cachedSettings, ok)
     ELSE [t EXCEPT !.threw = TRUE]

\* _validateSettings(this.cachedSettings) up to its await
validateSettings(s) ==
  LET validationResults == fastValidateSettings(Cache(s))
      t == fill(s)
  IN IF validationResults = <<>> THEN t
     ELSE IF t.options.defaultOnFailValidation
     THEN LET u == applyDefaults(t, validationResults)
          IN writeJSONFile(u, u.cachedSettings, "init")
     ELSE [t EXCEPT !.threw = TRUE]

\* initSync(), the directory being there; ok: fs.writeFileSync does not throw
initSync(s, ok) ==
  IF s.file.state = "missing" THEN initFailed(s)
  ELSE LET parsedResult == parseJSON(s.file) IN
       IF ~parsedResult.ok
       THEN LET t == setCachedSettings(s, defaults)
                u == writeJSONFileSync(t, t.cachedSettings, ok)
            IN IF u.threw THEN initFailed(u) ELSE initDone(u)
       ELSE LET new == NewRef(s)
                t == setCachedSettings([s EXCEPT !.heap[new] = parsedResult.obj], new)
                u == IF t.options.validateFile THEN validateSettingsSync(t, ok) ELSE t
            IN IF u.threw THEN initFailed(u) ELSE initDone(u)

\* init() from the completion of fs.promises.readFile to its next await or its end
initRead(s) ==
  IF s.file.state = "missing" THEN initFailed(s)
  ELSE LET parsedResult == parseJSON(s.file) IN
       IF ~parsedResult.ok
       THEN LET t == setCachedSettings(s, defaults)
                u == writeJSONFile(t, t.cachedSettings, "init")
            IN IF u.started > 0 THEN [u EXCEPT !.initPc = "writing"] ELSE initDone(u)
       ELSE LET new == NewRef(s)
                t == setCachedSettings([s EXCEPT !.heap[new] = parsedResult.obj], new)
                u == IF t.options.validateFile THEN validateSettings(t) ELSE t
            IN IF u.threw THEN initFailed(u)
               ELSE IF u.started > 0 THEN [u EXCEPT !.initPc = "writing"]
               ELSE initDone(u)


(***************************************************************************)
(* Steps.                                                                  *)
(***************************************************************************)
NoFin == [req |-> 0, follow |-> 0, cont |-> ""]
NoBurst == [n |-> 0, phys |-> 0]

\* what a call leaves in `last`
NoCall == [op |-> "", key |-> "", value |-> 0, res |-> NoResult, threw |-> FALSE,
           pre |-> EmptyObj]

Call(op, key, value, s, threw) ==
  IF op \in observe
  THEN [op |-> op, key |-> key, value |-> value, res |-> s.res, threw |-> threw,
        pre |-> heap[cachedSettings]]
  ELSE NoCall

RECURSIVE RefOrder(_, _, _)
\* the references in use other than the defaults, each once: those of acc,
\* then the data of the writes q[i..]
RefOrder(acc, q, i) ==
  IF i > Len(q) THEN acc
  ELSE LET d == q[i].data
       IN RefOrder(IF d = defaults \/ \E j \in 1..Len(acc) : acc[j] = d THEN acc
                   ELSE Append(acc, d), q, i + 1)

\* References are opaque: the objects in use are renumbered in a fixed order
\* (the defaults, the Cache, then the data of the writes in flight) and the
\* objects that are no longer referenced are dropped.
Canon(s) ==
  LET order == RefOrder(IF s.cachedSettings = defaults THEN <<>> ELSE <<s.cachedSettings>>,
                        s.inflight, 1)
      ren(d) == IF d = defaults THEN defaults
                ELSE CHOOSE j \in 1..Len(order) : order[j] = d
  IN [s EXCEPT !.heap = [i \in ObjIds |->
                           IF i = defaults THEN s.heap[defaults]
                           ELSE IF i <= Len(order) THEN s.heap[order[i]]
                           ELSE EmptyObj],
               !.cachedSettings = ren(s.cachedSettings),
               !.inflight = [j \in 1..Len(s.inflight) |->
                               [s.inflight[j] EXCEPT !.data = ren(s.inflight[j].data)]]]

\* the state s becomes the next state
Assign(s0, e, l, f, b) ==
  \E s \in {Canon(s0)} :
  /\ options' = s.options
  /\ heap' = s.heap
  /\ cachedSettings' = s.cachedSettings
  /\ hasInitialized' = s.hasInitialized
  /\ isWritingFlag' = s.isWritingFlag
  /\ writeAgainFlag' = s.writeAgainFlag
  /\ isQuitingFlag' = s.isQuitingFlag
  /\ watcher' = s.watcher
  /\ fsWait' = s.fsWait
  /\ orphanTimers' = s.orphanTimers
  /\ leaked' = s.leaked
  /\ leakedWait' = s.leakedWait
  /\ recentWrite' = s.recentWrite
  /\ file' = s.file
  /\ inflight' = s.inflight
  /\ initPc' = s.initPc
  /\ peakWrites' = s.peakWrites
  /\ reqDuring' = s.reqDuring
  /\ anyFail' = s.anyFail
  /\ windowListeners' = s.windowListeners
  /\ channel' = s.channel
  /\ applied' = s.applied
  /\ watch' = IF "fileChanged" \in observe THEN s.watch ELSE NoWatch
  /\ sent' = IF observe # {} THEN s.sent ELSE 0
  /\ observe' = observe
  /\ ev' = IF e \in observe THEN e ELSE ""
  /\ last' = l
  /\ fin' = IF e \in observe THEN f ELSE NoFin
  /\ burst' = IF observe # {} THEN b ELSE NoBurst

\* a step of the running process
Commit(s, e, l, f, b) ==
  /\ Assign(s, e, l, f, b)
  /\ UNCHANGED <<terminated, requests, replica, received, loaded>>

\* a call that throws before it changes anything
Throw(op, key, value) ==
  Commit(Cur, op, Call(op, key, value, Cur, TRUE), NoFin, NoBurst)

\* set(key, value) with a string key
Set(key, value) ==
  /\ ~terminated
  /\ IF ~hasInitialized THEN Throw("set", key, value)
     ELSE LET t == set1(Cur, key, value)
          IN Commit(t, "set", Call("set", key, value, t, FALSE), NoFin, NoBurst)

\* set(object)
SetObject(obj) ==
  /\ ~terminated
  /\ IF ~hasInitialized THEN Throw("setObject", "", 0)
     ELSE LET t == setObject(Cur, obj)
          IN Commit(t, "setObject", Call("setObject", "", 0, t, FALSE), NoFin, NoBurst)

\* get(key); the value returned is recorded as the value of the call
Get(key) ==
  /\ ~terminated
  /\ IF ~hasInitialized THEN Throw("get", key, 0)
     ELSE Commit(Cur, "get", Call("get", key, get(Cur, key), Cur, FALSE), NoFin, NoBurst)

\* setAll(data)
SetAll(obj) ==
  /\ ~terminated
  /\ IF ~hasInitialized THEN Throw("setAll", "", 0)
     ELSE LET new == NewRef(Cur)
              t == setAll([Cur EXCEPT !.heap[new] = obj], new)
          IN Commit([t EXCEPT !.threw = FALSE], "setAll",
                    Call("setAll", "", 0, t, t.threw), NoFin, NoBurst)

\* unset(key)
Unset(key) ==
  /\ ~terminated
  /\ LET t == unset(Cur, key)
     IN Commit(t, "unset", Call("unset", key, 0, t, FALSE), NoFin, NoBurst)

\* reset()
Reset ==
  /\ ~terminated
  /\ LET t == reset(Cur)
     IN Commit(t, "reset", Call("reset", "", 0, t, FALSE), NoFin, NoBurst)

\* writeSync()
WriteSync(ok) ==
  /\ ~terminated
  /\ LET t == writeSync(Cur, ok)
     IN Commit(t, "writeSync", Call("writeSync", "", 0, t, FALSE), NoFin, NoBurst)

\* write() up to its await
Write ==
  /\ ~terminated
  /\ LET t == write(Cur)
     IN Commit(t, "write", Call("write", "", 0, t, FALSE), NoFin, NoBurst)

\* resetAndWriteSync()
ResetAndWriteSync(ok) ==
  /\ ~terminated
  /\ LET t == writeSync(reset(Cur), ok)
     IN Commit(t, "resetAndWriteSync", Call("resetAndWriteSync", "", 0, t, FALSE),
               NoFin, NoBurst)

\* resetAndWrite() up to its await
ResetAndWrite ==
  /\ ~terminated
  /\ LET t == write(reset(Cur))
     IN Commit(t, "resetAndWrite", Call("resetAndWrite", "", 0, t, FALSE),
               NoFin, NoBurst)

\* the burst after a set-and-write call whose write found the asynchronous
\* write in flight still pending
BurstCall(s) ==
  IF s.res.status /\ isWritingFlag /\ Len(inflight) > 0 /\ burst.n = reqDuring
  THEN [n |-> Min(burst.n + 1, MaxCount), phys |-> IF burst.n = 0 THEN 1 ELSE burst.phys]
  ELSE NoBurst

\* setAndWriteSync(key, value) with a string key
SetAndWriteSync(key, value, ok) ==
  /\ ~terminated
  /\ IF ~hasInitialized THEN Throw("setAndWriteSync", key, value)
     ELSE LET t == set1(Cur, key, value)
              u == IF ~t.res.status THEN t
                   ELSE LET w == writeJSONFileSync(t, t.cachedSettings, ok)
                        IN IF w.threw
                           THEN [w EXCEPT !.threw = FALSE,
                                   !.res = Result(FALSE, t.res.default, "string",
                                                  <<"Write operation failed! Error">>)]
                           ELSE w
          IN Commit(u, "setAndWriteSync", Call("setAndWriteSync", key, value, u, FALSE),
                    NoFin, BurstCall(t))

\* setAndWrite(key, value) with a string key, up to its await
SetAndWrite(key, value) ==
  /\ ~terminated
  /\ IF ~hasInitialized THEN Throw("setAndWrite", key, value)
     ELSE LET t == set1(Cur, key, value)
              u == IF ~t.res.status THEN t
                   ELSE writeJSONFile(t, t.cachedSettings, "write")
          IN Commit(u, "setAndWrite", Call("setAndWrite", key, value, u, FALSE),
                    NoFin, BurstCall(t))

\* disableFileWatcher()
DisableFileWatcher ==
  /\ ~terminated
  /\ LET s == [Cur EXCEPT !.watch.disabled = @ \/ hasInitialized]
         t == IF watcher /\ options.watchFile
              THEN [closeWatcher(s) EXCEPT !.options.watchFile = FALSE,
                                           !.res = Result(TRUE, Undefined, "none", <<>>)]
              ELSE [s EXCEPT !.res = Result(FALSE, Undefined, "none", <<>>)]
     IN Commit(t, "disableFileWatcher", Call("disableFileWatcher", "", 0, t, FALSE),
               NoFin, NoBurst)

\* initSync()
InitSync(ok) ==
  /\ ~terminated
  /\ initPc = "new"
  /\ LET t == initSync(Cur, ok)
     IN Assign([t EXCEPT !.threw = FALSE], "initSync", Call("initSync", "", 0, t, t.threw),
               NoFin, NoBurst)
  /\ loaded' = IF "initSync" \in observe THEN file ELSE loaded
  /\ UNCHANGED <<terminated, requests, replica, received>>

\* init() up to the await of fs.promises.readFile
InitCall ==
  /\ ~terminated
  /\ initPc = "new"
  /\ Commit([Cur EXCEPT !.initPc = "reading"], "init", NoCall, NoFin, NoBurst)

\* fs.promises.readFile of init() completes
InitRead ==
  /\ ~terminated
  /\ initPc = "reading"
  /\ LET t == initRead(Cur)
     IN Assign([t EXCEPT !.threw = FALSE], "initRead", NoCall, NoFin, NoBurst)
  /\ loaded' = IF "initRead" \in observe THEN file ELSE loaded
  /\ UNCHANGED <<terminated, requests, replica, received>>

\* the sequence without its i-th element
Remove(q, i) == SubSeq(q, 1, i - 1) \o SubSeq(q, i + 1, Len(q))

\* the burst after a write has completed and started `follow` writes
BurstDone(follow) ==
  IF burst.n >= 3 THEN [burst EXCEPT !.phys = Min(@ + follow, MaxCount)] ELSE NoBurst

\* fs.promises.writeFile completes: the rest of _writeJSONFile runs, then the caller
WriteDone(i) ==
  /\ ~terminated
  /\ i \in 1..Len(inflight)
  /\ LET w == inflight[i]
         s == [Cur EXCEPT !.inflight = Remove(@, i), !.file = w.text, !.reqDuring = 0]
         t == afterWrite(s, w.data)
         u == IF w.cont = "init" THEN initDone(t) ELSE t
     IN Commit(u, "writeDone", NoCall,
               [req |-> reqDuring, follow |-> t.started, cont |-> w.cont],
               BurstDone(t.started))

\* fs.promises.writeFile rejects: _writeJSONFile rejects at its await
WriteFail(i) ==
  /\ ~terminated
  /\ i \in 1..Len(inflight)
  /\ LET w == inflight[i]
         s == [Cur EXCEPT !.inflight = Remove(@, i), !.reqDuring = 0, !.anyFail = TRUE]
         u == IF w.cont = "init" THEN [s EXCEPT !.initPc = "failed"] ELSE s
     IN Commit(u, "writeFail", NoCall, [req |-> reqDuring, follow |-> 0, cont |-> w.cont],
               BurstDone(0))

\* some timer that a watcher has started is pending
Pending(s) == s.fsWait \/ s.leakedWait \/ s.orphanTimers > 0

\* a file-change event that an open watcher gets while no save is in flight
\* and the quiescence window after the last own write is over
Qualifies(s) == (s.watcher \/ s.leaked) /\ ~s.isWritingFlag /\ ~s.recentWrite

\* the history of the watcher after a file-change event
Noted(s) ==
  IF ~Qualifies(s) THEN s.watch
  ELSE [s.watch EXCEPT !.events = IF Pending(s) THEN Min(@ + 1, MaxCount) ELSE 1,
                       !.recon = IF Pending(s) THEN @ ELSE 0,
                       !.stale = s.watcher /\ s.fsWait]

\* the history of the watcher after a timer fired; held: it is the timer of
\* the watcher held in _watcher
Fired(s, held) ==
  [s EXCEPT !.watch.recon = Min(@ + 1, MaxCount),
            !.watch.early = held /\ s.watch.stale,
            !.watch.stale = IF held THEN FALSE ELSE @]

\* another program replaces the backing document; every open watcher gets the event
ExternalChange(content) ==
  /\ ~terminated
  /\ content # file
  /\ (watcher /\ StartsTimer(Cur, fsWait)) => orphanTimers < MaxTimers
  /\ LET t == [Cur EXCEPT !.file = content,
                          !.fsWait = @ \/ (watcher /\ StartsTimer(Cur, fsWait)),
                          !.leakedWait = @ \/ (leaked /\ StartsTimer(Cur, leakedWait)),
                          !.watch = Noted(Cur)]
     IN Commit(t, "externalChange", NoCall, NoFin, NoBurst)

\* the timer of the watcher held in _watcher fires
TimerFire(ok) ==
  /\ ~terminated
  /\ fsWait
  /\ LET t == fileChanged(Fired([Cur EXCEPT !.fsWait = FALSE], TRUE), ok)
     IN Commit(t, "fileChanged", NoCall, NoFin, NoBurst)

\* the timer of a closed watcher fires
OrphanTimerFire(ok) ==
  /\ ~terminated
  /\ orphanTimers > 0
  /\ LET t == fileChanged(Fired([Cur EXCEPT !.orphanTimers = @ - 1], FALSE), ok)
     IN Commit(t, "fileChanged", NoCall, NoFin, NoBurst)

\* the timer of the leaked watcher fires
LeakedTimerFire(ok) ==
  /\ ~terminated
  /\ leaked /\ leakedWait
  /\ LET t == fileChanged(Fired([Cur EXCEPT !.leakedWait = FALSE], FALSE), ok)
     IN Commit(t, "fileChanged", NoCall, NoFin, NoBurst)

\* ten seconds have passed since the last write; a timer that was pending
\* when the write ended has fired by then, its delay being one second
Elapse ==
  /\ ~terminated
  /\ recentWrite
  /\ ~Pending(Cur)
  /\ recentWrite' = FALSE
  /\ sent' = 0
  /\ ev' = ""
  /\ UNCHANGED <<options, heap, cachedSettings, hasInitialized, isWritingFlag,
                 writeAgainFlag, isQuitingFlag, watcher, fsWait, orphanTimers, leaked,
                 leakedWait, file, inflight, initPc, terminated, windowListeners,
                 channel, requests, replica,
                 observe, last, peakWrites, reqDuring, fin, burst, anyFail,
                 loaded, applied, received, watch>>


\* app.quit(): the 'before-quit' hook of _writeBeforeQuit, if installed, then
\* the process ends; a write in flight has reached the file (landed) or not
BeforeQuit(ok, landed) ==
  /\ ~terminated
  /\ LET t == IF options.writeBeforeQuit /\ ~isQuitingFlag /\ ~isWritingFlag
              THEN writeSync([Cur EXCEPT !.isQuitingFlag = TRUE], ok)
              ELSE Cur
         u == [t EXCEPT !.inflight = <<>>,
                        !.file = IF landed /\ Len(t.inflight) > 0
                                 THEN t.inflight[1].text ELSE @]
     IN Assign(u, "quit", NoCall, [req |-> 0, follow |-> t.started, cont |-> "quit"],
               NoBurst)
  /\ terminated' = TRUE
  /\ UNCHANGED <<requests, replica, received, loaded>>

(***************************************************************************)
(* The replica (renderer process) and the messages between it and the      *)
(* owner.  One replica is modelled; objects cross the process boundary by  *)
(* value, so the replica holds contents and not references of the owner.   *)
(***************************************************************************)
\* the replica after its constructor; same: _cachedSettings and _defaults
\* are one object
NewReplica ==
  [hasInitialized |-> FALSE, cachedSettings |-> EmptyObj, defaults |-> EmptyObj,
   same |-> FALSE]

\* a message of the replica to the owner
Request(op, key, value) == [op |-> op, key |-> key, value |-> value]

\* the owner's state, untouched by a step of the replica
ownerVars ==
  <<options, heap, cachedSettings, hasInitialized, isWritingFlag, writeAgainFlag,
    isQuitingFlag, watcher, fsWait, orphanTimers, leaked, leakedWait, recentWrite,
    file, inflight, initPc, terminated, windowListeners,
    observe, peakWrites, reqDuring, burst, anyFail, loaded, applied, watch>>

\* a step of the replica: r is its new state, q the messages it sends, l
\* what is recorded of the call
ReplicaCall(e, r, q, l) ==
  /\ replica' = r
  /\ requests' = requests \o q
  /\ ev' = IF e \in observe THEN e ELSE ""
  /\ last' = IF e \in observe THEN l ELSE NoCall
  /\ sent' = 0
  /\ fin' = NoFin
  /\ UNCHANGED ownerVars

ReplicaStep(e, r, q) == ReplicaCall(e, r, q, NoCall)

\* the replica's get(key), once initialized
replicaGet(r, key) ==
  IF key \notin DOMAIN r.cachedSettings
  THEN Prop(r.defaults, key)
  ELSE r.cachedSettings[key]

\* the replica's get(key); the value returned is recorded as the value of the call
ReplicaGet(key) ==
  /\ ReplicaCall("replicaGet", replica, <<>>,
                 IF replica.hasInitialized
                 THEN [NoCall EXCEPT !.op = "replicaGet", !.key = key,
                                     !.value = replicaGet(replica, key)]
                 ELSE [NoCall EXCEPT !.op = "replicaGet", !.key = key, !.threw = TRUE])
  /\ UNCHANGED <<channel, received>>

\* the replica's `delete this._cachedSettings[key]`
replicaDelete(r, key) ==
  [r EXCEPT !.cachedSettings = Del(@, key),
            !.defaults = IF r.same THEN Del(@, key) ELSE @]

\* the replica's `this._cachedSettings = this._defaults`
replicaReset(r) == [r EXCEPT !.cachedSettings = r.defaults, !.same = TRUE]

\* the replica's initSync(), called once: the owner answers
\* getAllAndDefaultsSync at once with one message holding both objects
ReplicaInitSync ==
  /\ ~terminated
  /\ ~replica.hasInitialized
  /\ requests = <<>>
  /\ ReplicaStep("replicaInitSync",
                 [hasInitialized |-> TRUE, cachedSettings |-> heap[cachedSettings],
                  defaults |-> heap[defaults], same |-> cachedSettings = defaults],
                 <<Request("addListener", "", 0)>>)
  /\ UNCHANGED <<channel, received>>

\* the replica's set(key, value) with a string key
ReplicaSet(key, value) ==
  /\ Len(requests) < MaxRequests
  /\ ReplicaStep("replicaSet", replica,
                 IF replica.hasInitialized THEN <<Request("set", key, value)>> ELSE <<>>)
  /\ UNCHANGED <<channel, received>>

\* the replica's setAll(data)
ReplicaSetAll(data) ==
  /\ Len(requests) < MaxRequests
  /\ ReplicaStep("replicaSetAll", replica,
                 IF replica.hasInitialized THEN <<Request("setAll", "", data)>> ELSE <<>>)
  /\ UNCHANGED <<channel, received>>

\* the replica's unset(key)
ReplicaUnset(key) ==
  /\ Len(requests) < MaxRequests
  /\ IF ~replica.hasInitialized
     THEN ReplicaCall("replicaUnset", replica, <<>>,
                      [NoCall EXCEPT !.op = "replicaUnset", !.key = key, !.threw = TRUE])
     ELSE IF key \notin DOMAIN replica.cachedSettings
     THEN ReplicaCall("replicaUnset", replica, <<>>,
                      [NoCall EXCEPT !.op = "replicaUnset", !.key = key,
                                     !.res = Result(FALSE, Undefined, "none", <<>>)])
     ELSE ReplicaCall("replicaUnset", replicaDelete(replica, key),
                      <<Request("unset", key, 0)>>,
                      [NoCall EXCEPT !.op = "replicaUnset", !.key = key])
  /\ UNCHANGED <<channel, received>>

\* the replica's reset(), resetAndWriteSync() and resetAndWrite()
ReplicaReset(op) ==
  /\ Len(requests) < MaxRequests
  /\ ReplicaStep("replicaReset", replicaReset(replica), <<Request(op, "", 0)>>)
  /\ UNCHANGED <<channel, received>>

\* the replica's listener of updateSettings receives the oldest message
Deliver ==
  /\ replica.hasInitialized
  /\ channel # <<>>
  /\ ReplicaStep("updateSettings",
                 [replica EXCEPT !.cachedSettings = Head(channel), !.same = FALSE], <<>>)
  /\ channel' = Tail(channel)
  /\ received' = Append(received, Head(channel))

\* the owner's handler of the oldest message of the replica
handleIpc(s, m, ok) ==
  CASE m.op = "addListener" -> [s EXCEPT !.windowListeners = TRUE]
    [] m.op = "set" -> IF s.hasInitialized THEN set1(s, m.key, m.value)
                       ELSE [s EXCEPT !.threw = TRUE]
    [] m.op = "setAll" ->
         IF s.hasInitialized
         THEN LET new == NewRef(s) IN setAll([s EXCEPT !.heap[new] = m.value], new)
         ELSE [s EXCEPT !.threw = TRUE]
    [] m.op = "unset" -> unset(s, m.key)
    [] m.op = "reset" -> reset(s)
    [] m.op = "resetAndWriteSync" -> writeSync(reset(s), ok)
    [] m.op = "resetAndWrite" -> write(reset(s))

HandleIpc(ok) ==
  /\ ~terminated
  /\ requests # <<>>
  /\ LET m == Head(requests)
         t == handleIpc(Cur, m, ok)
     IN Assign([t EXCEPT !.threw = FALSE], m.op,
               Call(m.op, m.key, m.value, t, t.threw), NoFin, NoBurst)
  /\ requests' = Tail(requests)
  /\ UNCHANGED <<terminated, replica, received, loaded>>

(***************************************************************************)
(* The state after the constructor, for a set of options and of files.     *)
(***************************************************************************)
InitWith(optionSet, files, ops) ==
  /\ options \in optionSet
  /\ observe = ops
  /\ heap = [i \in ObjIds |-> IF i = defaults THEN retreiveDefaults ELSE EmptyObj]
  /\ cachedSettings = 1
  /\ hasInitialized = FALSE
  /\ isWritingFlag = FALSE
  /\ writeAgainFlag = FALSE
  /\ isQuitingFlag = FALSE
  /\ watcher = FALSE
  /\ fsWait = FALSE
  /\ orphanTimers = 0
  /\ leaked = FALSE
  /\ leakedWait = FALSE
  /\ recentWrite = TRUE
  /\ file \in files
  /\ inflight = <<>>
  /\ initPc = "new"
  /\ terminated = FALSE
  /\ windowListeners = FALSE
  /\ channel = <<>>
  /\ requests = <<>>
  /\ watch = NoWatch
  /\ replica = NewReplica
  /\ loaded = NoFile
  /\ applied = <<>>
  /\ received = <<>>
  /\ ev = ""
  /\ last = NoCall
  /\ sent = 0
  /\ peakWrites = 0
  /\ reqDuring = 0
  /\ fin = NoFin
  /\ burst = NoBurst
  /\ anyFail = FALSE

\* the options of the constructor, each with the values the model explores
Options(va, vf, df, wf, wq) ==
  [validate : va, validateFile : vf, defaultOnFailValidation : df, watchFile : wf,
   writeBeforeQuit : wq]

\* the backing documents a run starts from: none, one that is not JSON, and
\* objects without, with valid and with invalid fields
InitFiles ==
  {MissingFile, CorruptFile, stringify(EmptyObj),
   stringify([size |-> 22, id |-> 22]), stringify([size |-> 0, id |-> 22])}

\* what another program writes to the backing document
ExternalFiles == {stringify([size |-> 22, id |-> 22]), stringify([size |-> 0, id |-> 22])}

(***************************************************************************)
(* Spec: the Cache operations of an owner under every setting of validate, *)
(* validateFile and defaultOnFailValidation, with synchronous writes.      *)
(***************************************************************************)
Init == InitWith(Options(BOOLEAN, BOOLEAN, BOOLEAN, {FALSE}, {FALSE}), InitFiles,
                 {"set", "setObject", "reset"})

Next ==
  \/ \E ok \in BOOLEAN : InitSync(ok)
  \/ \E k \in SchemaKeys, v \in Values : Set(k, v)
  \/ \E o \in InputObjects : SetObject(o)
  \/ \E o \in InputObjects : SetAll(o)
  \/ \E k \in SchemaKeys : Unset(k)
  \/ Reset

Spec == Init /\ [][Next]_vars


(***************************************************************************)
(* Properties of the Cache operations.                                     *)
(***************************************************************************)
\* the value is valid for the schema key
Valid(k, v) == FieldError(k, v) = "ok"

\* the last step was a call set(k, v) that passed the initialization check
SetCalled == ev = "set" /\ ~last.threw

\* C1: with validation enabled, set(k, v) of a schema-valid v returns status
\* true and get(k) then returns v
C1_SetThenGet ==
  (SetCalled /\ options.validate /\ Valid(last.key, last.value))
    => (last.res.status /\ get(Cur, last.key) = last.value)

\* C2: after reset() on an initialized store the Cache equals the defaults
\* declared in the schema
C2_ResetGivesDefaults ==
  (ev = "reset" /\ hasInitialized) => Cache(Cur) = retreiveDefaults

\* C3: getDefaults always maps every schema key to the default declared in
\* the schema, and agrees with getDefault(k)
C3_DefaultsImmutable ==
  /\ heap[defaults] = retreiveDefaults
  /\ hasInitialized => \A k \in SchemaKeys : getDefault(Cur, k) = Prop(heap[defaults], k)

\* C4: with validate and defaultOnFailValidation, after set(k, v) of a
\* schema-invalid v, get(k) is the default declared for k
C4_InvalidSetGivesDefault ==
  (SetCalled /\ options.validate /\ options.defaultOnFailValidation
     /\ ~Valid(last.key, last.value))
    => get(Cur, last.key) = Schema[last.key].default

\* set(k, v) of a schema-invalid v with validate and defaultOnFailValidation
SoftFailure ==
  SetCalled /\ options.validate /\ options.defaultOnFailValidation
    /\ ~Valid(last.key, last.value)

DefaultApplied ==
  last.res.errKind = "string" /\ last.res.errs = <<"Default setting was applied">>

C6_InvalidSetLeavesCache ==
  (SetCalled /\ options.validate /\ ~options.defaultOnFailValidation
     /\ ~Valid(last.key, last.value))
    => /\ Cache(Cur) = last.pre
       /\ sent = 0
       /\ ~last.res.status
       /\ last.res.errKind = "list"
       /\ last.res.errs = Messages(fastValidateSettings(Put(EmptyObj, last.key, last.value)))


\* C15: two reset() calls in a row leave the Cache equal to the defaults
\* declared in the schema after each call, and send at most one notification
\* between them
C15_ResetTwice ==
  [][(hasInitialized /\ ev = "reset" /\ ev' = "reset")
       => /\ heap[cachedSettings] = retreiveDefaults
          /\ heap'[cachedSettings'] = retreiveDefaults
          /\ sent + sent' <= 1]_vars

\* C18: before the initialization has completed a data operation of the
\* owner (here set, batch set and reset) throws and leaves the Cache as it was
C18_ThrowsBeforeInit ==
  (ev \in {"set", "setObject", "reset"} /\ ~hasInitialized)
    => (last.threw /\ heap[cachedSettings] = last.pre)

(***************************************************************************)
(* SpecW: the write-coalescing of an owner with the default validation     *)
(* options and no watcher: asynchronous and synchronous writes, their      *)
(* completion or failure, both forms of init, and mutations of the Cache   *)
(* in place (unset, set) and as a whole (setAll, reset) in between.        *)
(***************************************************************************)
InitW ==
  InitWith(Options({TRUE}, {TRUE}, {TRUE}, {FALSE}, {FALSE}),
           {CorruptFile, stringify([size |-> 0, id |-> 22])},
           {"writeDone", "writeFail"})

\* the program calls the store only after it has initialized it
NextW ==
  \/ \E ok \in BOOLEAN : InitSync(ok)
  \/ InitCall
  \/ InitRead
  \/ hasInitialized /\ Unset("size")
  \/ hasInitialized /\ SetAll([size |-> 22, id |-> 22])
  \/ hasInitialized /\ Reset
  \/ hasInitialized /\ Write
  \/ hasInitialized /\ \E ok \in BOOLEAN : WriteSync(ok)
  \/ \E v \in Values : SetAndWrite("size", v)
  \/ \E v \in Values, ok \in BOOLEAN : SetAndWriteSync("size", v, ok)
  \/ hasInitialized /\ ResetAndWrite
  \/ hasInitialized /\ \E ok \in BOOLEAN : ResetAndWriteSync(ok)
  \/ \E i \in 1..Len(inflight) : WriteDone(i)
  \/ \E i \in 1..Len(inflight) : WriteFail(i)

SpecW == InitW /\ [][NextW]_vars

\* C8: when save requests arrived during a write, the write re-issued at its
\* completion serializes the Cache as it is at that moment, also when the
\* Cache was replaced as a whole (setAll, reset) during the write
C8_FollowUpSerializesCache ==
  (ev = "writeDone" /\ fin.req >= 1 /\ fin.follow = 1)
    => inflight[Len(inflight)].text = stringify(heap[cachedSettings])

\* C9: the save requests that arrived during one write, however many,
\* produce exactly one re-issued physical write when that write ends
C9_ExactlyOneFollowUp ==
  (ev \in {"writeDone", "writeFail"} /\ fin.req >= 1) => fin.follow = 1

\* C10: after three set+write calls made during one pending write, once no
\* write is pending and none has failed, the file holds the Cache and the
\* physical writes (the pending one included) are fewer than the three requested
C10_BurstEndsWithFinalCache ==
  (burst.n = 3 /\ inflight = <<>> /\ ~anyFail)
    => (file = stringify(heap[cachedSettings]) /\ burst.phys < burst.n)

\* C22: once write() has written the Cache of an initialized store, init()
\* of a new store on the same file ends with a Cache of the same content
C22_RoundTrip ==
  (/\ hasInitialized
   /\ ev = "writeDone" /\ fin.cont = "write" /\ fin.follow = 0
   /\ file = stringify(heap[cachedSettings]))
    => LET t == initRead(Constructed(options, file))
       IN t.initPc # "failed" /\ Cache(t) = heap[cachedSettings]

\* C12: a failed write is never thrown: every asynchronous write that fails,
\* the automatically re-issued write included, is awaited by a caller that
\* receives the failure
C12_WriteFailureNeverEscapes ==
  (ev = "writeFail") => fin.cont # "none"

(***************************************************************************)
(* SpecR: what write() and writeSync() answer, with set, an asynchronous   *)
(* write in flight and failing writes.                                     *)
(***************************************************************************)
InitR ==
  InitWith(Options({TRUE}, {TRUE}, {TRUE}, {FALSE}, {FALSE}),
           {CorruptFile, stringify([size |-> 22, id |-> 22])},
           {"write", "writeSync"})

NextR ==
  \/ \E ok \in BOOLEAN : InitSync(ok)
  \/ hasInitialized /\ \E v \in Values : Set("size", v)
  \/ hasInitialized /\ Reset
  \/ hasInitialized /\ Write
  \/ hasInitialized /\ \E ok \in BOOLEAN : WriteSync(ok)
  \/ \E i \in 1..Len(inflight) : WriteDone(i)
  \/ \E i \in 1..Len(inflight) : WriteFail(i)

SpecR == InitR /\ [][NextR]_vars

\* C11: when writeSync() returns true, or write() resolves to true, the
\* file holds the serialization of the Cache of that call
C11_TrueMeansWritten ==
  (ev \in {"write", "writeSync"} /\ last.res.status /\ last.res.errKind = "false")
    => file = stringify(heap[cachedSettings])

(***************************************************************************)
(* SpecI: an owner and one replica that joins it with initSync(), with the *)
(* default validation options and no watcher.  The messages of each        *)
(* direction are received in the order they were sent.                     *)
(***************************************************************************)
InitI ==
  InitWith(Options({TRUE}, {TRUE}, {TRUE}, {FALSE}, {FALSE}),
           {stringify([size |-> 0, id |-> 22])}, {})

NextI ==
  \/ \E ok \in BOOLEAN : InitSync(ok)
  \/ Len(applied) < MaxApplied /\ \E v \in Values : Set("size", v)
  \/ Len(applied) < MaxApplied /\ Unset("size")
  \/ Len(applied) < MaxApplied /\ Reset
  \/ ReplicaInitSync
  \/ ReplicaSet("size", 22)
  \/ ReplicaSetAll([size |-> 22, id |-> 22])
  \/ ReplicaUnset("size")
  \/ \E op \in {"reset", "resetAndWriteSync"} : ReplicaReset(op)
  \/ Len(applied) < MaxApplied /\ HandleIpc(TRUE)
  \/ Deliver

SpecI == InitI /\ [][NextI]_vars

\* C13: every change of the content of the owner's Cache pushes the new
\* snapshot to the registered replica: the snapshots sent to the replica are
\* the contents the Cache took, one for one
C13_EveryChangePushed == received \o channel = applied

(***************************************************************************)
(* SpecG: the reads of an owner and of its replica.                        *)
(***************************************************************************)
InitG ==
  InitWith(Options({TRUE}, {TRUE}, {TRUE}, {FALSE}, {FALSE}),
           {stringify([size |-> 22, id |-> 22])}, {"get", "replicaGet", "replicaUnset"})

\* the keys get is called with: one of the schema and one that is neither
\* in the schema nor ever set
GetKeys == {"size", "unknownKey"}

NextG ==
  \/ InitSync(TRUE)
  \/ Len(applied) < MaxApplied /\ Set("size", 0)
  \/ Len(applied) < MaxApplied /\ Unset("size")
  \/ Len(applied) < MaxApplied /\ Reset
  \/ \E k \in GetKeys : Get(k)
  \/ ReplicaInitSync
  \/ \E k \in GetKeys : ReplicaGet(k)
  \/ ReplicaUnset("size")
  \/ ReplicaReset("reset")
  \/ Len(applied) < MaxApplied /\ HandleIpc(TRUE)
  \/ Deliver

SpecG == InitG /\ [][NextG]_vars

\* C34: every mutating request of the replica is executed by the owner and
\* answered with the value of a local call: unset(k) of the replica returns
\* false without a request to the owner only when k is not in the owner's
\* Cache, where a local unset(k) returns false too
C34_ReplicaUnsetAsOwner ==
  [][(ev' = "replicaUnset" /\ ~last'.threw /\ requests' = requests)
       => last'.key \notin DOMAIN heap[cachedSettings]]_vars

\* C38: before the initialization of the owner has completed no replica
\* reads or changes the Cache: no initSync() of the replica is served with
\* the unloaded Cache, and no request of the replica that the owner handles
\* changes the Cache or the file
C38_NoReplicaAccessBeforeInit ==
  [][~hasInitialized =>
       /\ replica'.hasInitialized => replica.hasInitialized
       /\ (requests # <<>> /\ requests' = Tail(requests))
            => (heap'[cachedSettings'] = heap[cachedSettings] /\ file' = file)]_vars

\* what get(key) is to return for a Cache, or local copy, c
Expected(c, key) ==
  IF key \in DOMAIN c THEN c[key]
  ELSE IF key \in SchemaKeys THEN Schema[key].default
  ELSE Undefined

\* C23: on an initialized store get(k) returns the cached value of k, else
\* the schema default of k, else undefined, for the owner and for the replica
C23_GetValue ==
  /\ (ev = "get" /\ ~last.threw)
       => last.value = Expected(heap[cachedSettings], last.key)
  /\ (ev = "replicaGet" /\ ~last.threw)
       => last.value = Expected(replica.cachedSettings, last.key)

RECURSIVE IsSubseq(_, _)
\* a is b with some elements left out
IsSubseq(a, b) ==
  IF a = <<>> THEN TRUE
  ELSE IF b = <<>> THEN FALSE
  ELSE IF Head(a) = Head(b) THEN IsSubseq(Tail(a), Tail(b))
  ELSE IsSubseq(a, Tail(b))

\* C16: the local copy of the replica changes only by being replaced with a
\* snapshot of the owner: the one fetched by the initial fetch or the oldest
\* pushed one; no operation of the replica changes it by itself
C16_LocalCopyOnlyReplaced ==
  [][replica'.cachedSettings # replica.cachedSettings
       => \/ /\ channel # <<>>
             /\ replica'.cachedSettings = Head(channel)
             /\ channel' = Tail(channel)
          \/ /\ ~replica.hasInitialized
             /\ replica'.cachedSettings = heap[cachedSettings]]_vars

\* C17: over an order-preserving channel the replica receives the pushed
\* snapshots in the order of the owner's changes of the Cache, and each
\* snapshot is the content the Cache had right after its change
C17_PushedInChangeOrder == IsSubseq(received \o channel, applied)

C17_Witness ==
  /\ Len(received) >= 2
  /\ received[1] # received[2]
  /\ channel # <<>>
  /\ replica.cachedSettings = received[Len(received)]

(***************************************************************************)
(* SpecN: the notifications of an owner whose watcher is armed, under      *)
(* every setting of validateFile and defaultOnFailValidation.              *)
(***************************************************************************)
InitN ==
  InitWith(Options({TRUE}, BOOLEAN, BOOLEAN, {TRUE}, {FALSE}),
           {CorruptFile, stringify([size |-> 22, id |-> 22])}, {"reset"})

NextN ==
  \/ \E ok \in BOOLEAN : InitSync(ok)
  \/ \E k \in SchemaKeys, v \in Values : Set(k, v)
  \/ \E o \in InputObjects : SetObject(o)
  \/ \E o \in InputObjects : SetAll(o)
  \/ \E k \in SchemaKeys : Unset(k)
  \/ Reset
  \/ \E c \in ExternalFiles : ExternalChange(c)
  \/ \E ok \in BOOLEAN : TimerFire(ok)
  \/ Elapse

SpecN == InitN /\ [][NextN]_vars

\* C14: a step of the owner that leaves the content of the Cache as it was
\* sends no notification
C14_NoNotificationWithoutChange ==
  [][heap'[cachedSettings'] = heap[cachedSettings] => sent' = 0]_vars

\* a reset() of a Cache that equals the defaults has just returned
C14_Witness ==
  /\ hasInitialized
  /\ ev = "reset"
  /\ last.pre = retreiveDefaults
  /\ heap[cachedSettings] = last.pre
  /\ sent = 0

(***************************************************************************)
(* SpecL: the load of the backing document by initSync() and by init(),    *)
(* under every setting of validateFile and defaultOnFailValidation, with   *)
(* writes that succeed; the owner is called once it is initialized.        *)
(***************************************************************************)
InitL ==
  InitWith(Options({TRUE}, BOOLEAN, BOOLEAN, {FALSE}, {FALSE}), InitFiles,
           {"initSync", "initRead", "writeDone", "set", "get"})

NextL ==
  \/ InitSync(TRUE)
  \/ InitCall
  \/ InitRead
  \/ \E i \in 1..Len(inflight) : WriteDone(i)
  \/ \E k \in SchemaKeys, v \in Values : Set(k, v)
  \/ \E k \in SchemaKeys : Get(k)
  \/ hasInitialized /\ \E k \in SchemaKeys : Unset(k)
  \/ hasInitialized /\ Reset

SpecL == InitL /\ [][NextL]_vars

\* init() or initSync() has just ended, normally or with an error
InitEnded ==
  \/ ev = "initSync"
  \/ ev = "initRead" /\ initPc \in {"done", "failed"}
  \/ ev = "writeDone" /\ fin.cont = "init"

\* C19: init() and initSync() on a backing file that is missing or is not
\* JSON end with the store initialized, the Cache equal to the defaults of
\* the schema, and the defaults written to the file
C19_BadFileGivesDefaults ==
  (InitEnded /\ loaded.state \in {"missing", "corrupt"})
    => /\ hasInitialized
       /\ heap[cachedSettings] = retreiveDefaults
       /\ file = stringify(retreiveDefaults)

\* the fields of the document read by the initialization that fail the schema
LoadedErrors == Fields(fastValidateSettings(parseJSON(loaded).obj))

\* C20: with validateFile and defaultOnFailValidation, after init() or
\* initSync() on a JSON file with invalid fields the Cache holds the schema
\* default of every invalid field and the value of the file for every other
\* key of the file, and the file has been rewritten to equal the Cache
C20_RepairedLoad ==
  (/\ InitEnded
   /\ options.validateFile /\ options.defaultOnFailValidation
   /\ loaded.state = "json" /\ LoadedErrors # {})
    => /\ hasInitialized
       /\ \A k \in LoadedErrors : Prop(heap[cachedSettings], k) = Schema[k].default
       /\ \A k \in (DOMAIN parseJSON(loaded).obj) \ LoadedErrors :
            Prop(heap[cachedSettings], k) = parseJSON(loaded).obj[k]
       /\ file = stringify(heap[cachedSettings])

\* the initialization read a JSON document with invalid fields, validateFile
\* being set and defaultOnFailValidation not
FatalLoad ==
  /\ options.validateFile /\ ~options.defaultOnFailValidation
  /\ loaded.state = "json" /\ LoadedErrors # {}

\* C21: with validateFile and without defaultOnFailValidation, init() and
\* initSync() on a file with an invalid field fail, write nothing and leave
\* the store uninitialized, so that get and set throw from then on
C21_InvalidFileIsFatal ==
  FatalLoad
    => /\ initPc = "failed"
       /\ ~hasInitialized
       /\ file = loaded /\ inflight = <<>>
       /\ ev \in {"get", "set"} => (last.threw /\ heap[cachedSettings] = last.pre)

\* get has thrown after such a failed initialization
C21_Witness == FatalLoad /\ ev = "get" /\ last.threw

\* init() has just ended with the write of a repaired Cache
C20_Witness ==
  /\ ev = "writeDone" /\ fin.cont = "init"
  /\ options.validateFile /\ options.defaultOnFailValidation
  /\ loaded.state = "json" /\ LoadedErrors # {}
  /\ hasInitialized
  /\ file # loaded

(***************************************************************************)
(* SpecP: every source of a physical write, with the watcher armed and the *)
(* quit hook installed: write, writeSync, setAndWrite[Sync],               *)
(* resetAndWrite[Sync], the baseline and repair writes of init and         *)
(* initSync, the repair write of the watcher and the write before quit.    *)
(***************************************************************************)
InitP ==
  InitWith(Options({TRUE}, {TRUE}, {TRUE}, {TRUE}, {TRUE}),
           {CorruptFile, stringify([size |-> 0, id |-> 22])}, {})

NextP ==
  \/ \E ok \in BOOLEAN : InitSync(ok)
  \/ InitCall
  \/ InitRead
  \/ Write
  \/ \E ok \in BOOLEAN : WriteSync(ok)
  \/ SetAndWrite("size", 22)
  \/ \E ok \in BOOLEAN : SetAndWriteSync("size", 22, ok)
  \/ ResetAndWrite
  \/ \E ok \in BOOLEAN : ResetAndWriteSync(ok)
  \/ \E i \in 1..Len(inflight) : WriteDone(i)
  \/ \E i \in 1..Len(inflight) : WriteFail(i)
  \/ \E c \in ExternalFiles : ExternalChange(c)
  \/ \E ok \in BOOLEAN : TimerFire(ok)
  \/ \E ok \in BOOLEAN : OrphanTimerFire(ok)
  \/ \E ok \in BOOLEAN : LeakedTimerFire(ok)
  \/ Elapse
  \/ DisableFileWatcher
  \/ \E ok \in BOOLEAN, landed \in BOOLEAN : BeforeQuit(ok, landed)

SpecP == InitP /\ [][NextP]_vars

\* C24: a quit request made while a write is in flight is deferred: the
\* process ends only when no write is in flight and no follow-up write is owed
C24_QuitDeferredDuringWrite ==
  [][(~terminated /\ terminated') => (inflight = <<>> /\ ~writeAgainFlag)]_vars

\* C36: after a physical write has failed the persistence engine is idle
\* again: once no write is in progress the write-in-flight flag is clear and,
\* with watchFile on, the watcher of an initialized store is armed
C36_IdleAfterFailedWrite ==
  (anyFail /\ inflight = <<>> /\ ~terminated)
    => /\ ~isWritingFlag
       /\ (hasInitialized /\ options.watchFile) => watcher

\* C7: at most one physical write is in progress at any time, whichever of
\* write, writeSync, setAndWrite[Sync], resetAndWrite[Sync], init, initSync,
\* the watcher repair and the quit hook started it
C7_OneWriteInProgress == peakWrites <= 1 /\ Len(inflight) <= 1

\* a save was requested while a write was in progress, and was put off
C7_Witness == Len(inflight) = 1 /\ reqDuring >= 2 /\ writeAgainFlag


(***************************************************************************)
(* SpecT: the file watcher of an initialized owner: file-change events of  *)
(* another program, the debounce timers, the owner's own writes that close *)
(* and re-arm the watcher, and disableFileWatcher().                       *)
(***************************************************************************)
InitT ==
  InitWith(Options({TRUE}, {TRUE}, {TRUE}, {TRUE}, {FALSE}),
           {stringify([size |-> 22, id |-> 22]), stringify([size |-> 0, id |-> 22])},
           {"fileChanged", "externalChange", "disableFileWatcher"})

NextT ==
  \/ InitSync(TRUE)
  \/ hasInitialized /\ Write
  \/ hasInitialized /\ WriteSync(TRUE)
  \/ \E i \in 1..Len(inflight) : WriteDone(i)
  \/ \E c \in ExternalFiles : ExternalChange(c)
  \/ TimerFire(TRUE)
  \/ OrphanTimerFire(TRUE)
  \/ LeakedTimerFire(TRUE)
  \/ Elapse
  \/ DisableFileWatcher

SpecT == InitT /\ [][NextT]_vars

\* C25: the reconciliation step of the watcher (_fileChanged: read the file,
\* update or repair the Cache) never executes while the write-in-flight flag
\* is set, also when its timer was started before the save began
C25_NoReconciliationDuringSave ==
  [][ev' = "fileChanged" => ~isWritingFlag]_vars

\* C26: once disableFileWatcher() has been called on the initialized store,
\* no watcher is armed and no reconciliation (_fileChanged) runs any more,
\* whatever writes were in flight at the call or follow it
C26_DisarmedIsTerminal ==
  [][watch.disabled => (~watcher' /\ ev' # "fileChanged")]_vars

\* the fields of the store, without the history of the run
storeVars ==
  <<options, heap, cachedSettings, hasInitialized, isWritingFlag, writeAgainFlag,
    isQuitingFlag, watcher, fsWait, orphanTimers, leaked, leakedWait, recentWrite,
    file, inflight, initPc>>

\* C27: disableFileWatcher() returns true exactly when it tore down the armed
\* watcher; a call that directly follows another call, or one on a store
\* whose watcher is not armed, returns false and changes no field of the store
C27_DisableIdempotent ==
  [][ev' = "disableFileWatcher" =>
       /\ last'.res.status = (watcher /\ ~watcher')
       /\ (ev = "disableFileWatcher" \/ ~watcher) => ~last'.res.status
       /\ ~last'.res.status => UNCHANGED storeVars]_vars

\* C28: a file-change event that arrives while a save is in flight, or less
\* than the quiescence window after the owner's last own write, is ignored:
\* no watcher starts a timer for it, so that it leads to no reconciliation
C28_EventIgnoredWhileQuiet ==
  [][(ev' = "externalChange" /\ (isWritingFlag \/ recentWrite)) =>
       /\ UNCHANGED <<fsWait, leakedWait, orphanTimers>>
       /\ UNCHANGED <<heap, cachedSettings, watch>>]_vars

\* the armed watcher of an initialized store has ignored an event that
\* arrived in the quiescence window
C28_Witness ==
  /\ ev = "externalChange" /\ hasInitialized /\ watcher /\ recentWrite
  /\ ~Pending(Cur)

\* C29: every qualifying file-change event restarts the debounce timer, so
\* that a reconciliation never runs sooner than one full delay after the most
\* recent qualifying event: the timer that starts a reconciliation has seen
\* no qualifying event since it was started
C29_DebounceRestarts == ev = "fileChanged" => ~watch.early

\* C30: three qualifying file-change events within one debounce window
\* trigger exactly one reconciliation, also when a write of the owner closes
\* and re-arms the watcher in between: no second reconciliation runs in the
\* window, and one has run when no timer is pending any more
C30_OneReconciliationPerWindow ==
  watch.events = 3 => /\ watch.recon <= 1
                      /\ ~Pending(Cur) => watch.recon = 1

\* C35: a reconciliation that runs while no save is in flight and reads a
\* file with invalid fields leaves the schema default in the Cache for each
\* invalid field and the value of the file for every other field, writes the
\* Cache to the file, and pushes the Cache to the replicas if it has changed
C35_ReconcileAsLoad ==
  [][(/\ ev' = "fileChanged" /\ ~isWritingFlag
      /\ parseJSON(file).ok /\ fastValidateSettings(parseJSON(file).obj) # <<>>)
       => LET o == parseJSON(file).obj
              bad == Fields(fastValidateSettings(o))
          IN /\ \A k \in bad : Prop(heap'[cachedSettings'], k) = Schema[k].default
             /\ \A k \in (DOMAIN o) \ bad : Prop(heap'[cachedSettings'], k) = o[k]
             /\ file' = stringify(heap'[cachedSettings'])
             /\ heap'[cachedSettings'] # heap[cachedSettings] => sent' > 0]_vars

\* a second call, after the call that tore the watcher down, has returned false
C27_Witness ==
  /\ ev = "disableFileWatcher" /\ ~last.res.status
  /\ hasInitialized /\ ~options.watchFile /\ ~watcher

(***************************************************************************)
(* SpecV: values that fail the schema, given to set, set(object) and       *)
(* setAll by a local caller and by the replica, and a set of a key that    *)
(* the schema does not declare, with validate on and either setting of     *)
(* defaultOnFailValidation.                                                *)
(***************************************************************************)
InitV ==
  InitWith(Options({TRUE}, {TRUE}, BOOLEAN, {FALSE}, {FALSE}),
           {stringify([size |-> 22, id |-> 22])}, {"set", "setObject", "setAll"})

\* objects of which the first fails the schema (size is below its minimum)
DataV == {[size |-> 0, id |-> 22], [size |-> 30, id |-> 22]}

NextV ==
  \/ InitSync(TRUE)
  \/ Len(applied) < MaxApplied /\ \E v \in {0, 30} : Set("size", v)
  \/ Len(applied) < MaxApplied /\ Set("unknownKey", 22)
  \/ Len(applied) < MaxApplied /\ \E obj \in DataV : SetObject(obj)
  \/ Len(applied) < MaxApplied /\ \E obj \in DataV : SetAll(obj)
  \/ ReplicaInitSync
  \/ ReplicaSet("size", 0)
  \/ \E obj \in DataV : ReplicaSetAll(obj)
  \/ Len(applied) < MaxApplied /\ HandleIpc(TRUE)
  \/ Deliver

SpecV == InitV /\ [][NextV]_vars

\* C31: a validation failure is never fatal: on an initialized owner, set,
\* set(object) and setAll return a result and do not throw, whether a local
\* caller or a request of the replica made the call
C31_ValidationNeverThrows ==
  (hasInitialized /\ ev \in {"set", "setObject", "setAll"}) => ~last.threw

\* C32: set(k, v) of a key k that the schema does not declare stores v under
\* k in the Cache, unvalidated and undefaulted, so that get(k) returns v
C32_UndeclaredKeyStored ==
  (hasInitialized /\ ev = "set" /\ ~last.threw /\ last.key \notin SchemaKeys)
    => /\ Prop(heap[cachedSettings], last.key) = last.value
       /\ get(Cur, last.key) = last.value

(***************************************************************************)
(* SpecC: the content of the Cache of an owner with validate, validateFile *)
(* and defaultOnFailValidation on and the watcher armed: the load, every   *)
(* Cache operation with declared keys, and the reconciliations with the    *)
(* documents another program writes.                                       *)
(***************************************************************************)
\* the documents another program writes: a valid one, one whose size is
\* invalid and whose id differs, and one with an undeclared property
ExternalC ==
  {stringify([size |-> 30, id |-> 22]), stringify([size |-> 0, id |-> 30]),
   [state |-> "json", text |-> <<<<"size", 22>>, <<"id", 22>>, <<"unknownKey", 22>>>>]}

InitC ==
  InitWith(Options({TRUE}, {TRUE}, {TRUE}, {TRUE}, {FALSE}),
           {stringify([size |-> 22, id |-> 22])} \cup ExternalC, {})

NextC ==
  \/ InitSync(TRUE)
  \/ \E v \in Values : Set("size", v)
  \/ \E o \in InputObjects : SetObject(o)
  \/ \E o \in InputObjects : SetAll(o)
  \/ Unset("size")
  \/ Reset
  \/ \E c \in ExternalC : ExternalChange(c)
  \/ TimerFire(TRUE)
  \/ OrphanTimerFire(TRUE)
  \/ LeakedTimerFire(TRUE)
  \/ Elapse

SpecC == InitC /\ [][NextC]_vars

\* C33: every key of the Cache is declared in the schema or was inserted by
\* an explicit set or setAll call; the callers of SpecC pass declared keys
\* only, so that neither the load nor a reconciliation may add another key
C33_NoUndeclaredKeyByLoad ==
  hasInitialized => DOMAIN heap[cachedSettings] \subseteq SchemaKeys

(***************************************************************************)
(* SpecS: the startup of the replica beside an initialized owner whose     *)
(* Cache is changed by local set calls only: the fetch of initSync() of    *)
(* the replica, its registration message, and the pushed snapshots.        *)
(***************************************************************************)
InitS ==
  InitWith(Options({TRUE}, {TRUE}, {TRUE}, {FALSE}, {FALSE}),
           {stringify([size |-> 22, id |-> 22])}, {})

NextS ==
  \/ InitSync(TRUE)
  \/ Len(applied) < MaxApplied /\ \E k \in SchemaKeys, v \in {22, 30} : Set(k, v)
  \/ hasInitialized /\ ReplicaInitSync
  \/ HandleIpc(TRUE)
  \/ Deliver

SpecS == InitS /\ [][NextS]_vars

\* C37: no mutation of the owner is lost during the startup of the replica:
\* once the replica is initialized and registered and every message has been
\* delivered, its local copy equals the Cache of the owner
C37_NoMutationLostAtStartup ==
  (replica.hasInitialized /\ windowListeners /\ requests = <<>> /\ channel = <<>>)
    => replica.cachedSettings = heap[cachedSettings]

\* C39: with validate, validateFile and defaultOnFailValidation on, after a
\* successful init every schema key that is present in the Cache holds a
\* value that satisfies the schema (a number within min and max, which
\* `undefined` is not), whatever set, set(object), setAll, unset, reset and
\* reconciliations have occurred
C39_CacheValid ==
  (hasInitialized /\ options.validate /\ options.validateFile
     /\ options.defaultOnFailValidation)
    => \A k \in SchemaKeys \cap DOMAIN heap[cachedSettings] :
         FieldError(k, heap[cachedSettings][k]) = "ok"

(***************************************************************************)
(* SpecQ: the quit hook (writeBeforeQuit on) of an owner whose physical    *)
(* writes succeed: quit requests before and after init, with the Cache     *)
(* changed since the last write, and with a write in flight.               *)
(***************************************************************************)
InitQ ==
  InitWith(Options({TRUE}, {TRUE}, {TRUE}, BOOLEAN, {TRUE}),
           {stringify([size |-> 22, id |-> 22])}, {"quit"})

NextQ ==
  \/ InitSync(TRUE)
  \/ \E v \in {22, 30} : Set("size", v)
  \/ Write
  \/ WriteSync(TRUE)
  \/ \E i \in 1..Len(inflight) : WriteDone(i)
  \/ \E landed \in BOOLEAN : BeforeQuit(TRUE, landed)

SpecQ == InitQ /\ [][NextQ]_vars

=============================================================================
